---- MODULE Spec2Model ----
(***************************************************************************)
(* Model of the digital-twin conversation workflow of twin_langgraph.py:   *)
(* run_twin_conversation builds the graph                                  *)
(*     START -> retrieve -> personalize -> decision                        *)
(*     decision -> (escalate | generate | decision),  escalate/generate -> END *)
(* and invokes it on a fresh TwinState.  Texts are real strings, so that   *)
(* lower(), substring tests and concatenations are computed as the code    *)
(* computes them.  Distances are fixed-point numbers in hundredths.        *)
(***************************************************************************)
EXTENDS Integers, Sequences, FiniteSets, TLC

VARIABLES
    pc,                \* position of the running invocation in the graph
    state,             \* the TwinState dict handed from node to node
    genai_configured,  \* module global _genai_configured
    api_key,           \* whether GEMINI_API_KEY is set in the environment
    result,            \* the dict run_twin_conversation returned
    exc,               \* message of the exception graph.invoke raised ("" if none)
    trace,             \* history: the nodes executed by this invocation, in order
    synthesis,         \* history: final_response as the last Decide pass left it
    backend_ok,        \* history: some retrieval query or generation call succeeded
    queried,           \* history: what the vector store answered to the Retrieve
                       \* node that has just run (<<>> otherwise)
    retrieved_nothing, \* history: all three partition queries of this invocation
                       \* returned, without raising, no documents
    retrieved_unscored, \* history: all three partition queries of this invocation
                       \* returned documents without distances
    retrieve_left,     \* history: the state as the Retrieve node of this
                       \* invocation left it (<<>> before it has run)
    decide_calls,      \* history: the generation calls of the last Decide pass
                       \* (prompt, whether it raised, the text it returned)
    m_pc,              \* run_meeting: position of the meeting run in its graph
    m_request,         \* history: the arguments run_meeting was called with
    m_state,           \* run_meeting: the AgentState channels of the meeting graph
    m_writes,          \* run_meeting: the updates the recommend_* branches of the
                       \* running superstep returned, in completion order
    m_inputs,          \* history: persona -> human message of its call in this turn
    m_calls,           \* history: persona -> executions of its recommend_* node
    m_generations,     \* history: generate_content calls made by the meeting run
    m_run_id,          \* run_meeting: the run identifier it generated
    uuids,             \* number of uuid.uuid4() values drawn so far
    memory,            \* the chat memory of the agents: records stored so far
    runs,              \* the run files written: run id -> content
    m_result,          \* the dict run_meeting returned (<<>> before that)
    merge_call,        \* a call of the recommendations reducer and its arguments
    calls              \* the invocations of run_twin_conversation that run side
                       \* by side: each one's position, own state and result

twin_vars == <<pc, state, genai_configured, api_key, result, exc, trace, synthesis,
               backend_ok, queried, retrieved_nothing, retrieved_unscored,
               retrieve_left, decide_calls>>

meeting_vars == <<m_pc, m_request, m_state, m_writes, m_inputs, m_calls, m_generations,
                  m_run_id, uuids, memory, runs, m_result>>

vars == <<twin_vars, meeting_vars, merge_call, calls>>

----------------------------------------------------------------------------
(* Bounds of the model *)

\* documents (and distances) a partition that has documents returns for one
\* query, unless n_results is smaller
DocsPerQuery == 2
\* supersteps graph.invoke runs before it raises GraphRecursionError
\* (the library's recursion limit, scaled down)
MaxSupersteps == 5
\* distance scores a query can return, in hundredths (1.20 is beyond the clamp)
DistGrid == {20, 120}
\* the user's question
Queries == {"Should we expand?"}

----------------------------------------------------------------------------
(* Strings *)

UpperCase == "ABCDEFGHIJKLMNOPQRSTUVWXYZ"
LowerCase == "abcdefghijklmnopqrstuvwxyz"

\* the lower-case letter of every upper-case letter
LowerMap ==
    [c \in {SubSeq(UpperCase, i, i) : i \in 1..Len(UpperCase)} |->
        LET i == CHOOSE j \in 1..Len(UpperCase) : SubSeq(UpperCase, j, j) = c
        IN  SubSeq(LowerCase, i, i)]

LowerChar(c) == IF c \in DOMAIN LowerMap THEN LowerMap[c] ELSE c

\* str.lower()
RECURSIVE lower(_)
lower(s) ==
    IF Len(s) = 0 THEN ""
    ELSE LowerChar(SubSeq(s, 1, 1)) \o lower(SubSeq(s, 2, Len(s)))

\* the Python test  p in s
Contains(s, p) ==
    \E i \in 1..(Len(s) - Len(p) + 1) : SubSeq(s, i, i + Len(p) - 1) = p

\* "\n".join(docs)
RECURSIVE JoinLines(_)
JoinLines(docs) ==
    IF Len(docs) = 0 THEN ""
    ELSE IF Len(docs) = 1 THEN docs[1]
    ELSE docs[1] \o "\n" \o JoinLines(Tail(docs))

RECURSIVE SumSeq(_)
SumSeq(s) == IF Len(s) = 0 THEN 0 ELSE s[1] + SumSeq(Tail(s))

Min(a, b) == IF a <= b THEN a ELSE b

Last(s) == s[Len(s)]

----------------------------------------------------------------------------
(* The TwinState of a fresh invocation *)

initial_state(user_query) ==
    [ user_query          |-> user_query,
      communication_style |-> "",
      business_context    |-> "",
      decision_history    |-> "",
      low_confidence      |-> FALSE,
      action_needed       |-> FALSE,
      feedback_loop       |-> FALSE,
      style_confidence    |-> 0,
      context_confidence  |-> 0,
      decision_confidence |-> 0,
      overall_confidence  |-> 0,
      proposal            |-> "",
      critique            |-> "",
      final_response      |-> "",
      escalated           |-> FALSE ]

----------------------------------------------------------------------------
(* Stage 1: retrieve_node *)

\* n_results of the three partition queries
n_results_style == 3
n_results_context == 5
n_results_decision == 3

\* confidence of a partition that has documents but no distance scores
style_default == 50
context_default == 40
decision_default == 30

\* escalation threshold on overall confidence
low_confidence_threshold == 30

\* the documents a query returns: n passages
Documents(n) == [i \in 1..n |-> "passage"]

\* What collection.query can do: raise, return no document, or return
\* documents with one distance per document or with no distances at all.
QueryResults(n_results) ==
    {[raises |-> TRUE, documents |-> <<>>, distances |-> <<>>]}
    \cup
    UNION { { [raises |-> FALSE, documents |-> Documents(n), distances |-> ds] :
                ds \in {<<>>} \cup [1..n -> DistGrid] } :
            n \in {0, Min(n_results, DocsPerQuery)} }

\* the conversion without the clamp min(avg_distance, 1.0)
DistanceConfidenceUnclamped(distances) ==
    LET n == Len(distances)
        total == SumSeq(distances)
    IN  (100 * n - total) \div n

\* int((1 - min(avg_distance, 1.0)) * 100) with avg_distance = sum / len,
\* on distances given in hundredths; int() truncates a non-negative float.
DistanceConfidence(distances) ==
    LET n == Len(distances)
        total == SumSeq(distances)
    IN  (100 * n - Min(total, 100 * n)) \div n

\* a partition whose except branch leaves the heuristic default as confidence
PartitionResultKeepsDefault(res, default) ==
    IF res.raises
    THEN [text |-> "", confidence |-> default]
    ELSE IF Len(res.documents) > 0
    THEN [text |-> JoinLines(res.documents),
          confidence |-> IF Len(res.distances) > 0
                         THEN DistanceConfidence(res.distances)
                         ELSE default]
    ELSE [text |-> "", confidence |-> 0]

\* one partition's try block: text and confidence from a query result
PartitionResult(res, default) ==
    IF res.raises
    THEN [text |-> "", confidence |-> 0]
    ELSE IF Len(res.documents) > 0
    THEN [text |-> JoinLines(res.documents),
          confidence |-> IF Len(res.distances) > 0
                         THEN DistanceConfidence(res.distances)
                         ELSE default]
    ELSE [text |-> "", confidence |-> 0]

\* round(mean) instead: to the nearest integer (a mean of three integers is
\* never a tie)
OverallConfidenceRounded(style, context, decision) ==
    (2 * (style + context + decision) + 3) \div 6

\* int(sum(confidence_scores) / len(confidence_scores))
OverallConfidence(style, context, decision) ==
    (style + context + decision) \div 3

\* the flag with <= in place of <
IsLowConfidenceInclusive(overall) == overall <= low_confidence_threshold

\* state["overall_confidence"] < 30
IsLowConfidence(overall) == overall < low_confidence_threshold

\* retrieve_node: collections_raise is get_twin_collections raising,
\* client_raises is PersistentClient raising inside the business-context try,
\* which leaves chroma_client unbound for the decision-history try.
retrieve_node(st, collections_raise, style_res, client_raises, context_res, decision_res) ==
    IF collections_raise
    THEN [st EXCEPT !.communication_style = "",
                    !.business_context = "",
                    !.decision_history = "",
                    !.style_confidence = 0,
                    !.context_confidence = 0,
                    !.decision_confidence = 0,
                    !.overall_confidence = 0,
                    !.low_confidence = TRUE]
    ELSE LET failed == [raises |-> TRUE, documents |-> <<>>, distances |-> <<>>]
             style == PartitionResult(style_res, style_default)
             context == PartitionResult(IF client_raises THEN failed ELSE context_res,
                                        context_default)
             decision == PartitionResult(IF client_raises THEN failed ELSE decision_res,
                                         decision_default)
             overall == OverallConfidence(style.confidence, context.confidence,
                                          decision.confidence)
         IN  [st EXCEPT !.communication_style = style.text,
                        !.style_confidence = style.confidence,
                        !.business_context = context.text,
                        !.context_confidence = context.confidence,
                        !.decision_history = decision.text,
                        !.decision_confidence = decision.confidence,
                        !.overall_confidence = overall,
                        !.low_confidence = IsLowConfidence(overall)]

----------------------------------------------------------------------------
(* Stage 2: personalize_node *)

\* a personalize step that also resets the style score
personalize_node_rescoring(st) ==
    [st EXCEPT !.communication_style = "Tone: Professional",
               !.style_confidence = 0]

personalize_node(st) ==
    [st EXCEPT !.communication_style =
        IF st.communication_style # ""
        THEN "Apply this communication style (learned from actual emails):\n"
             \o st.communication_style
             \o "\n\nTone: Professional\nRisk Tolerance: Balanced\n"
        ELSE "Apply this communication style (from profile):\n"
             \o "Tone: Professional\nFormality: Medium-High\nRisk Tolerance: Balanced\n"
             \o "Core Values: Excellence and Innovation\n\n"
             \o "Note: Limited style data available - using general professional approach.\n"]

----------------------------------------------------------------------------
(* The text generator: model.generate_content(prompt).text *)

\* what one generation call can do: raise, or return a text (possibly empty)
Generation(raises, text) == [raises |-> raises, text |-> text]

generation_error == "quota exceeded"

ProposalOutcomes ==
    { Generation(TRUE, ""), Generation(FALSE, ""),
      Generation(FALSE, "Enter the new market now.") }

CritiqueOutcomes ==
    { Generation(TRUE, ""), Generation(FALSE, ""),
      Generation(FALSE, "There is a Significant Risk of overreach."),
      Generation(FALSE, "Major concern: we need more data.") }

ModeratorOutcomes ==
    { Generation(TRUE, ""), Generation(FALSE, ""),
      Generation(FALSE, "Enter the market in two phases.") }

EscalationOutcomes ==
    { Generation(TRUE, ""), Generation(FALSE, ""),
      Generation(FALSE, "Follow general best practices.") }

----------------------------------------------------------------------------
(* Stage 3: decision_node (Proposal -> Critique -> Moderator) *)

proposal_fallback == "Unable to generate proposal due to system error."
\* a fallback critique that itself names a major concern
critique_fallback_alarming == "Major concern: unable to generate critique."

critique_fallback == "Unable to generate critique."
moderator_fallback == "Unable to generate final response."

\* the context confidence under which tools might be needed
action_needed_threshold == 20

\* the try/except around one generation call
TextOrFallback(gen, fallback) == IF gen.raises THEN fallback ELSE gen.text

\* "significant risk" in critique.lower() or "major concern" in critique.lower()
FeedbackLoop(critique) ==
    LET lowered == lower(critique)
    IN  \/ Contains(lowered, "significant risk")
        \/ Contains(lowered, "major concern")

\* "need more data" in critique.lower() or context_confidence < 20
ActionNeeded(critique, context_confidence) ==
    \/ Contains(lower(critique), "need more data")
    \/ context_confidence < action_needed_threshold

\* the parts of the three prompts that come from the state
proposal_context(st) ==
    "Business Context:\n"
    \o (IF st.business_context # "" THEN st.business_context
        ELSE "Limited data - use general principles")
    \o "\n\nDecision History:\n"
    \o (IF st.decision_history # "" THEN st.decision_history
        ELSE "No historical decisions available")
    \o "\n"

proposal_prompt(st) ==
    "You are proposing a bold, innovative response to this question.\n\nQuestion: "
    \o st.user_query
    \o "\n\nContext: " \o proposal_context(st)
    \o "\n\nCommunication Style: " \o st.communication_style

critique_prompt(st, proposal) ==
    "You are critiquing this proposal for risks and gaps.\n\nProposal: "
    \o proposal
    \o "\n\nBusiness Context: " \o proposal_context(st)

moderator_prompt(st, proposal, critique) ==
    "Synthesize a final response that balances the proposal and critique.\n\nQuestion: "
    \o st.user_query
    \o "\n\nProposal: " \o proposal
    \o "\n\nCritique: " \o critique
    \o "\n\nCommunication Style: " \o st.communication_style
    \o "\n\n(current: " \o ToString(st.overall_confidence) \o "%)"

\* the generate_content calls of one pass of decision_node, in order
decision_calls(st, proposal_gen, critique_gen, moderator_gen) ==
    LET proposal == TextOrFallback(proposal_gen, proposal_fallback)
        critique == TextOrFallback(critique_gen, critique_fallback)
    IN  << [prompt |-> proposal_prompt(st),
            raises |-> proposal_gen.raises, text |-> proposal_gen.text],
           [prompt |-> critique_prompt(st, proposal),
            raises |-> critique_gen.raises, text |-> critique_gen.text],
           [prompt |-> moderator_prompt(st, proposal, critique),
            raises |-> moderator_gen.raises, text |-> moderator_gen.text] >>

\* a decision_node that gives up on the synthesis when the critique failed
decision_node_critique_aborts(st, proposal_gen, critique_gen, moderator_gen) ==
    LET proposal == TextOrFallback(proposal_gen, proposal_fallback)
        critique == TextOrFallback(critique_gen, critique_fallback)
        final == IF critique_gen.raises
                 THEN moderator_fallback
                 ELSE TextOrFallback(moderator_gen, moderator_fallback)
    IN  [st EXCEPT !.proposal = proposal,
                   !.critique = critique,
                   !.final_response = final,
                   !.feedback_loop = FeedbackLoop(critique),
                   !.action_needed = ActionNeeded(critique, st.context_confidence)]

\* the body of decision_node after ensure_genai_configured() returned
decision_node(st, proposal_gen, critique_gen, moderator_gen) ==
    LET proposal == TextOrFallback(proposal_gen, proposal_fallback)
        critique == TextOrFallback(critique_gen, critique_fallback)
        final == TextOrFallback(moderator_gen, moderator_fallback)
    IN  [st EXCEPT !.proposal = proposal,
                   !.critique = critique,
                   !.final_response = final,
                   !.feedback_loop = FeedbackLoop(critique),
                   !.action_needed = ActionNeeded(critique, st.context_confidence)]

----------------------------------------------------------------------------
(* Stage 4: escalate_node *)

\* the note put in front of the generated guidance (the warning sign omitted)
escalation_note(overall_confidence) ==
    "\n\n---\n**Limited Data Available** (Confidence: "
    \o ToString(overall_confidence) \o "%)\n\n"
    \o "To improve accuracy, consider connecting:\n"
    \o "- Email account (for communication style)\n"
    \o "- CRM system (for business context)\n"
    \o "- Upload past decisions/documents\n\n"
    \o "Meanwhile, here's general guidance:\n"

escalation_failure(error) ==
    "Unable to provide guidance. Please connect data sources to improve twin accuracy. (Error: "
    \o error \o ")"

\* an escalation that writes the response but not the flag
escalate_node_unflagged(st, gen) ==
    [st EXCEPT !.final_response =
                   IF gen.raises
                   THEN escalation_failure(generation_error)
                   ELSE escalation_note(st.overall_confidence) \o "\n" \o gen.text]

escalate_node(st, gen) ==
    [st EXCEPT !.final_response =
                   IF gen.raises
                   THEN escalation_failure(generation_error)
                   ELSE escalation_note(st.overall_confidence) \o "\n" \o gen.text,
               !.escalated = TRUE]

----------------------------------------------------------------------------
(* Stage 5: generate_node *)

\* the overall confidence under which a disclaimer is appended
disclaimer_threshold == 70

confidence_note(overall_confidence) ==
    "\n\n**Confidence: " \o ToString(overall_confidence)
    \o "%** - Consider connecting more data sources for higher accuracy."

\* the test with <= in place of <
NeedsDisclaimerInclusive(overall_confidence) == overall_confidence <= disclaimer_threshold

\* state["overall_confidence"] < 70
NeedsDisclaimer(overall_confidence) == overall_confidence < disclaimer_threshold

generate_node(st) ==
    [st EXCEPT !.final_response =
                   st.final_response
                   \o (IF NeedsDisclaimer(st.overall_confidence)
                       THEN confidence_note(st.overall_confidence)
                       ELSE ""),
               !.escalated = FALSE]

----------------------------------------------------------------------------
(* Routing *)

\* a graph in which retrieve leads straight to decision
edge_skipping_personalize(node) ==
    CASE node = "START"       -> "retrieve"
      [] node = "retrieve"    -> "decision"
      [] node = "personalize" -> "decision"
      [] node = "escalate"    -> "END"
      [] node = "generate"    -> "END"

\* workflow.add_edge(node, ...): the unconditional edges of the graph
edge(node) ==
    CASE node = "START"       -> "retrieve"
      [] node = "retrieve"    -> "personalize"
      [] node = "personalize" -> "decision"
      [] node = "escalate"    -> "END"
      [] node = "generate"    -> "END"

\* a router that looks at the feedback flag first
route_feedback_first(st) ==
    IF st.feedback_loop THEN "decision"
    ELSE IF st.low_confidence THEN "escalate"
    ELSE "generate"

route_after_decision(st) ==
    IF st.low_confidence THEN "escalate"
    ELSE IF st.feedback_loop THEN "decision"
    ELSE "generate"

----------------------------------------------------------------------------
(* run_twin_conversation *)

config_error == "GEMINI_API_KEY not found"
recursion_error == "Recursion limit reached without hitting a stop condition."

\* the dict returned when graph.invoke returns final_state
result_of(final_state) ==
    [ response   |-> final_state.final_response,
      confidence |-> [ style    |-> final_state.style_confidence,
                       context  |-> final_state.context_confidence,
                       decision |-> final_state.decision_confidence,
                       overall  |-> final_state.overall_confidence ],
      escalated  |-> final_state.escalated,
      proposal   |-> final_state.proposal,
      critique   |-> final_state.critique ]

\* the dict returned when graph.invoke raises (ULTIMATE FALLBACK)
fallback_result(error) ==
    [ response   |-> "I apologize, but I encountered an error processing your request. "
                     \o "To provide accurate responses, please connect your email and CRM data. Error: "
                     \o error,
      confidence |-> [style |-> 0, context |-> 0, decision |-> 0, overall |-> 0],
      escalated  |-> TRUE,
      proposal   |-> "",
      critique   |-> "" ]

----------------------------------------------------------------------------
(* The state machine *)

Nodes == {"retrieve", "personalize", "decision", "escalate", "generate"}

\* graph.invoke runs at most MaxSupersteps supersteps
CanStep == Len(trace) < MaxSupersteps

\* ensure_genai_configured() raises ValueError
EnsureRaises == ~genai_configured /\ ~api_key

\* no meeting has been started
MeetingIdle ==
    /\ m_pc = "idle"
    /\ m_request = <<>>
    /\ m_state = <<>>
    /\ m_writes = <<>>
    /\ m_inputs = <<>>
    /\ m_calls = <<>>
    /\ m_generations = 0
    /\ m_run_id = ""
    /\ uuids = 0
    /\ memory = <<>>
    /\ runs = <<>>
    /\ m_result = <<>>

\* the reducer has not been called
MergeIdle == merge_call = <<>>

\* the callers that invoke run_twin_conversation side by side
Invocations == {1, 2}

\* an invocation that has not been made
idle_call ==
    [pc |-> "idle", state |-> <<>>, steps |-> 0, answers |-> <<>>, exc |-> "",
     result |-> <<>>]

\* no invocation runs side by side with another
CallsIdle == calls = [i \in Invocations |-> idle_call]

Init ==
    /\ pc = "idle"
    /\ state \in {initial_state(q) : q \in Queries}
    /\ genai_configured = FALSE
    /\ api_key \in BOOLEAN
    /\ result = <<>>
    /\ exc = ""
    /\ trace = <<>>
    /\ synthesis = ""
    /\ backend_ok = FALSE
    /\ queried = <<>>
    /\ retrieved_nothing = FALSE
    /\ retrieved_unscored = FALSE
    /\ retrieve_left = <<>>
    /\ decide_calls = <<>>
    /\ MeetingIdle
    /\ MergeIdle
    /\ CallsIdle

\* run_twin_conversation up to graph.invoke(initial_state): START -> retrieve
RunTwinConversation ==
    /\ pc \in {"idle", "returned"}
    /\ \E q \in Queries : state' = initial_state(q)
    /\ pc' = edge("START")
    /\ result' = <<>>
    /\ exc' = ""
    /\ trace' = <<>>
    /\ synthesis' = ""
    /\ backend_ok' = FALSE
    /\ queried' = <<>>
    /\ retrieved_nothing' = FALSE
    /\ retrieved_unscored' = FALSE
    /\ retrieve_left' = <<>>
    /\ decide_calls' = <<>>
    /\ UNCHANGED <<genai_configured, api_key>>
    /\ UNCHANGED <<meeting_vars, merge_call, calls>>

RetrieveNode ==
    /\ pc = "retrieve"
    /\ CanStep
    /\ \E collections_raise \in BOOLEAN, client_raises \in BOOLEAN,
          style_res \in QueryResults(n_results_style),
          context_res \in QueryResults(n_results_context),
          decision_res \in QueryResults(n_results_decision) :
            /\ state' = retrieve_node(state, collections_raise, style_res,
                                      client_raises, context_res, decision_res)
            /\ queried' = << [collections_raise |-> collections_raise,
                               client_raises |-> client_raises,
                               style |-> style_res,
                               context |-> context_res,
                               decision |-> decision_res] >>
            /\ retrieved_nothing' =
                   (/\ ~collections_raise
                    /\ ~client_raises
                    /\ \A res \in {style_res, context_res, decision_res} :
                           ~res.raises /\ Len(res.documents) = 0)
            /\ retrieved_unscored' =
                   (/\ ~collections_raise
                    /\ ~client_raises
                    /\ \A res \in {style_res, context_res, decision_res} :
                           /\ ~res.raises
                           /\ Len(res.documents) > 0
                           /\ Len(res.distances) = 0)
            /\ backend_ok' = (/\ ~collections_raise
                              /\ \/ ~style_res.raises
                                 \/ ~client_raises /\ ~context_res.raises
                                 \/ ~client_raises /\ ~decision_res.raises)
    /\ retrieve_left' = <<state'>>
    /\ trace' = Append(trace, "retrieve")
    /\ pc' = edge("retrieve")
    /\ UNCHANGED <<genai_configured, api_key, result, exc, synthesis, decide_calls>>
    /\ UNCHANGED <<meeting_vars, merge_call, calls>>

PersonalizeNode ==
    /\ pc = "personalize"
    /\ CanStep
    /\ state' = personalize_node(state)
    /\ queried' = <<>>
    /\ trace' = Append(trace, "personalize")
    /\ pc' = edge("personalize")
    /\ UNCHANGED <<genai_configured, api_key, result, exc, synthesis, backend_ok, retrieved_nothing, retrieved_unscored, retrieve_left,
                   decide_calls>>
    /\ UNCHANGED <<meeting_vars, merge_call, calls>>

\* decision_node when ensure_genai_configured() raises: nothing catches it
\* inside the graph, so graph.invoke raises
DecisionConfigError ==
    /\ pc = "decision"
    /\ CanStep
    /\ EnsureRaises
    /\ trace' = Append(trace, "decision")
    /\ exc' = config_error
    /\ pc' = "raised"
    /\ UNCHANGED <<state, genai_configured, api_key, result, synthesis, backend_ok, queried, retrieved_nothing, retrieved_unscored, retrieve_left,
                   decide_calls>>
    /\ UNCHANGED <<meeting_vars, merge_call, calls>>

\* decision_node followed by the conditional edge route_after_decision
DecisionNode ==
    /\ pc = "decision"
    /\ CanStep
    /\ ~EnsureRaises
    /\ genai_configured' = TRUE
    /\ \E proposal_gen \in ProposalOutcomes, critique_gen \in CritiqueOutcomes,
          moderator_gen \in ModeratorOutcomes :
            /\ state' = decision_node(state, proposal_gen, critique_gen, moderator_gen)
            /\ decide_calls' = decision_calls(state, proposal_gen, critique_gen,
                                              moderator_gen)
            /\ backend_ok' = (\/ backend_ok
                              \/ ~proposal_gen.raises
                              \/ ~critique_gen.raises
                              \/ ~moderator_gen.raises)
    /\ synthesis' = state'.final_response
    /\ trace' = Append(trace, "decision")
    /\ pc' = route_after_decision(state')
    /\ UNCHANGED <<api_key, result, exc, queried, retrieved_nothing, retrieved_unscored, retrieve_left>>
    /\ UNCHANGED <<meeting_vars, merge_call, calls>>

EscalateNode ==
    /\ pc = "escalate"
    /\ CanStep
    /\ ~EnsureRaises
    /\ \E gen \in EscalationOutcomes :
            /\ state' = escalate_node(state, gen)
            /\ backend_ok' = (backend_ok \/ ~gen.raises)
    /\ trace' = Append(trace, "escalate")
    /\ pc' = edge("escalate")
    /\ UNCHANGED <<genai_configured, api_key, result, exc, synthesis, queried, retrieved_nothing, retrieved_unscored, retrieve_left,
                   decide_calls>>
    /\ UNCHANGED <<meeting_vars, merge_call, calls>>

GenerateNode ==
    /\ pc = "generate"
    /\ CanStep
    /\ state' = generate_node(state)
    /\ trace' = Append(trace, "generate")
    /\ pc' = edge("generate")
    /\ UNCHANGED <<genai_configured, api_key, result, exc, synthesis, backend_ok, queried, retrieved_nothing, retrieved_unscored, retrieve_left,
                   decide_calls>>
    /\ UNCHANGED <<meeting_vars, merge_call, calls>>

\* a node is due but the supersteps are used up: graph.invoke raises
RecursionLimit ==
    /\ pc \in Nodes
    /\ ~CanStep
    /\ exc' = recursion_error
    /\ pc' = "raised"
    /\ UNCHANGED <<state, genai_configured, api_key, result, trace, synthesis, backend_ok, queried, retrieved_nothing, retrieved_unscored, retrieve_left,
                   decide_calls>>
    /\ UNCHANGED <<meeting_vars, merge_call, calls>>

\* graph.invoke returned final_state
ReturnResult ==
    /\ pc = "END"
    /\ result' = <<result_of(state)>>
    /\ pc' = "returned"
    /\ UNCHANGED <<state, genai_configured, api_key, exc, trace, synthesis, backend_ok, queried, retrieved_nothing, retrieved_unscored, retrieve_left,
                   decide_calls>>
    /\ UNCHANGED <<meeting_vars, merge_call, calls>>

\* graph.invoke raised: the except clause of run_twin_conversation
UltimateFallback ==
    /\ pc = "raised"
    /\ result' = <<fallback_result(exc)>>
    /\ pc' = "returned"
    /\ UNCHANGED <<state, genai_configured, api_key, exc, trace, synthesis, backend_ok, queried, retrieved_nothing, retrieved_unscored, retrieve_left,
                   decide_calls>>
    /\ UNCHANGED <<meeting_vars, merge_call, calls>>

Next ==
    \/ RunTwinConversation
    \/ RetrieveNode
    \/ PersonalizeNode
    \/ DecisionConfigError
    \/ DecisionNode
    \/ EscalateNode
    \/ GenerateNode
    \/ RecursionLimit
    \/ ReturnResult
    \/ UltimateFallback

Spec == Init /\ [][Next]_vars

\* the first call of run_twin_conversation in the process
FirstInvocation ==
    /\ pc = "idle"
    /\ RunTwinConversation

\* one invocation on its own
NextOnce ==
    \/ FirstInvocation
    \/ RetrieveNode
    \/ PersonalizeNode
    \/ DecisionConfigError
    \/ DecisionNode
    \/ EscalateNode
    \/ GenerateNode
    \/ RecursionLimit
    \/ ReturnResult
    \/ UltimateFallback

\* one invocation in which graph.invoke and run_twin_conversation run every
\* step that is due
SpecOnceFair == Init /\ [][NextOnce]_vars /\ WF_vars(NextOnce)

----------------------------------------------------------------------------
(***************************************************************************)
(* The meeting orchestrator of agents.py: run_meeting validates the agents,*)
(* builds the graph                                                        *)
(*     START -> start_recommend -> recommend_<persona> (one per agent)     *)
(*     recommend_* -> after_recommend -> increment                         *)
(*     increment -> (start_recommend | update_memory),  update_memory -> END *)
(* invokes it and writes the run file.  The recommend_* nodes of a turn    *)
(* run as parallel branches of one superstep: each reads the state as it   *)
(* was when the superstep began, and the updates they return are merged    *)
(* into the channels, by the channels' reducers, when all have finished.   *)
(***************************************************************************)

\* longest agents list a caller passes
MaxAgents == 2

\* largest turns argument a caller passes
MaxTurns == 2

\* the keys of PERSONAS in dict order (the first three of the roster)
PERSONAS == <<"Sam_Altman", "Jensen_Huang", "Andrew_Ng">>

\* the identifiers callers put in their agents lists
AgentPool == {"Sam_Altman", "twin_3", "twin_7", "nonexistent_agent"}

Tasks == {"Enter the EU market?"}

UserProfiles == {"CFO at Acme"}

Range(s) == {s[i] : i \in DOMAIN s}

\* the sequences over S of length at most n without repeated elements
RECURSIVE DistinctSeqs(_, _)
DistinctSeqs(S, n) ==
    IF n = 0
    THEN {<<>>}
    ELSE LET shorter == DistinctSeqs(S, n - 1)
         IN  shorter \cup UNION {{Append(s, x) : x \in S \ Range(s)} :
                                    s \in {t \in shorter : Len(t) = n - 1}}

\* dict.get(key, default)
Get(d, key, default) == IF key \in DOMAIN d THEN d[key] ELSE default

\* s[:n]
Prefix(s, n) == SubSeq(s, 1, Min(Len(s), n))

\* str.startswith
StartsWith(s, p) == Len(s) >= Len(p) /\ SubSeq(s, 1, Len(p)) = p

----------------------------------------------------------------------------
(* models.py: the reducer of the recommendations channel *)

\* a merge in which the current mapping takes precedence
merge_dicts_left_biased(left, right) ==
    [k \in DOMAIN left \cup DOMAIN right |->
        IF k \in DOMAIN left THEN left[k] ELSE right[k]]

\* a merge that appends the update's text to the current text of a key
merge_dicts_appending(left, right) ==
    [k \in DOMAIN left \cup DOMAIN right |->
        IF k \in DOMAIN left /\ k \in DOMAIN right THEN left[k] \o right[k]
        ELSE IF k \in DOMAIN right THEN right[k] ELSE left[k]]

\* {**left, **right}
merge_dicts(left, right) ==
    [k \in DOMAIN left \cup DOMAIN right |->
        IF k \in DOMAIN right THEN right[k] ELSE left[k]]

\* operator.add on the messages channel
add(left, right) == left \o right

----------------------------------------------------------------------------
(* agent_metadata.py *)

\* company and role of the roster entries
PERSONAS_metadata ==
    ("Sam_Altman" :> [company |-> "OpenAI", role |-> "CEO"])
    @@ ("Jensen_Huang" :> [company |-> "NVIDIA", role |-> "CEO"])
    @@ ("Andrew_Ng" :> [company |-> "DeepLearning.AI", role |-> "Founder"])

\* the rows of the table twin_metadata: twin_3 has one, twin_7 has none
twin_metadata == ("twin_3" :> [company |-> "Acme", role |-> "CFO"])

\* _fetch_twin_metadata_from_db: <<row>>, or <<>> for None (no row, or the
\* query failed)
fetch_twin_metadata_from_db(twin_key) ==
    IF twin_key \in DOMAIN twin_metadata
    THEN <<twin_metadata[twin_key]>>
    ELSE <<>>

generic_metadata == [company |-> "Digital Twin", role |-> "Personalized Advisor"]

\* the ValueError("Invalid agent: ...") of get_agent_metadata
invalid_agent == [raises |-> TRUE, company |-> "", role |-> ""]

Metadata(card) == [raises |-> FALSE, company |-> card.company, role |-> card.role]

\* get_agent_metadata that answers every identifier with generic metadata
get_agent_metadata_lenient(agent) == Metadata(generic_metadata)

\* get_agent_metadata that refuses a twin without a row in the table
get_agent_metadata_strict(agent) ==
    IF agent \in Range(PERSONAS)
    THEN Metadata(PERSONAS_metadata[agent])
    ELSE IF StartsWith(agent, "twin_") /\ fetch_twin_metadata_from_db(agent) # <<>>
    THEN Metadata(fetch_twin_metadata_from_db(agent)[1])
    ELSE invalid_agent

\* get_agent_metadata: the metadata, or that it raises
get_agent_metadata(agent) ==
    IF agent \in Range(PERSONAS)
    THEN Metadata(PERSONAS_metadata[agent])
    ELSE IF StartsWith(agent, "twin_")
    THEN IF fetch_twin_metadata_from_db(agent) # <<>>
         THEN Metadata(fetch_twin_metadata_from_db(agent)[1])
         ELSE Metadata(generic_metadata)
    ELSE invalid_agent

----------------------------------------------------------------------------
(* agents.py: agent_node *)

\* what generate_content answers to persona's call of the given round
advice(persona, round) ==
    "Advice of " \o persona \o ", round " \o ToString(round) \o "."

RecommendationOutcomes(persona, current_turn) ==
    { Generation(TRUE, ""),
      Generation(FALSE, ""),
      Generation(FALSE, advice(persona, current_turn + 1)) }

\* markdown.markdown(text) of a one-paragraph text
markdown(text) == IF text = "" THEN "" ELSE "<p>" \o text \o "</p>"

fallback_recommendation(persona) == "Fallback recommendation for " \o persona

\* the parts of system_prompt that come from the persona and the state; the
\* knowledge chunks and the stored memory of earlier runs are left out (a run
\* stores memory only in update_memory, after its last turn)
system_prompt(st, persona) ==
    "You are " \o persona \o ", the visionary " \o get_agent_metadata(persona).role
    \o " at " \o get_agent_metadata(persona).company \o ".\n"
    \o "**User Context**: "
    \o (IF st.user_profile # ""
        THEN st.user_profile
        ELSE "No specific user profile provided; provide general advice.")

\* a human message that asks for a refinement from the third turn on only
human_content_refines_late(st, persona) ==
    IF st.current_turn > 1
    THEN "Refine your previous recommendation for: '" \o st.task \o "'\nPrevious: "
         \o Get(st.recommendations, persona, "")
    ELSE "Provide a recommendation for: '" \o st.task \o "'"

human_content(st, persona) ==
    IF st.current_turn > 0
    THEN "Refine your previous recommendation for: '" \o st.task \o "'\nPrevious: "
         \o Get(st.recommendations, persona, "")
    ELSE "Provide a recommendation for: '" \o st.task \o "'"

\* the text handed to generate_content
agent_prompt(st, persona) ==
    system_prompt(st, persona) \o "\n\n" \o human_content(st, persona)

\* an agent_node that returns the whole mapping it read with its own entry set
agent_node_returns_mapping(st, persona, gen) ==
    [recommendations |->
        merge_dicts(st.recommendations,
                    persona :> (IF gen.raises
                                THEN fallback_recommendation(persona)
                                ELSE markdown(gen.text)))]

\* an agent_node whose except branch answers for every agent of the run
agent_node_fallback_for_all(st, persona, gen) ==
    [recommendations |->
        IF gen.raises
        THEN [p \in Range(st.agents) |-> fallback_recommendation(p)]
        ELSE (persona :> markdown(gen.text))]

\* agent_node: the update the node returns
agent_node(st, persona, gen) ==
    [recommendations |->
        (persona :> (IF gen.raises
                     THEN fallback_recommendation(persona)
                     ELSE markdown(gen.text)))]

\* a branch that sees the updates the finished branches of its superstep
\* returned
RECURSIVE branch_state_live(_, _)
branch_state_live(st, writes) ==
    IF writes = <<>>
    THEN st
    ELSE branch_state_live(
             [st EXCEPT !.recommendations = merge_dicts(@, writes[1].update.recommendations)],
             Tail(writes))

\* the state a recommend_* branch is called with: the channels as they were
\* when the superstep began, whatever the other branches have returned
branch_state(st, writes) == st

----------------------------------------------------------------------------
(* agents.py: the other nodes of the meeting graph *)

\* the updates of the finished branches go through the reducer one by one
RECURSIVE apply_writes(_, _)
apply_writes(st, writes) ==
    IF writes = <<>>
    THEN st
    ELSE apply_writes(
             [st EXCEPT !.recommendations = merge_dicts(@, writes[1].update.recommendations)],
             Tail(writes))

\* lambda state: state -- the node returns every channel's value, and the
\* channels with a reducer combine it with what they hold
pass_through(st) ==
    [st EXCEPT !.recommendations = merge_dicts(@, st.recommendations),
               !.messages = add(@, st.messages)]

increment_turn(st) == [st EXCEPT !.current_turn = @ + 1]

\* a loop test that also continues when current_turn equals turns
decide_to_continue_inclusive(st) ==
    IF st.current_turn <= st.turns THEN "continue" ELSE "end"

decide_to_continue(st) ==
    IF st.current_turn < st.turns THEN "continue" ELSE "end"

\* str(uuid.uuid4()): the n-th identifier drawn
uuid4(n) == "uuid-" \o ToString(n)

\* characters of a recommendation that go into its memory message
memory_prefix_length == 500

memory_message(task, recommendation) ==
    "Strategy for '" \o task \o "': "
    \o Prefix(recommendation, memory_prefix_length) \o "..."

\* the personas update_memory_node calls store_chat_message for, in order
personas_to_store(st) ==
    SelectSeq(st.agents, LAMBDA persona : Get(st.recommendations, persona, "") # "")

\* update_memory_node: the records in memory when the first `stored` calls of
\* store_chat_message succeed (the next one, if any, raises and ends the loop).
\* The state the node is called with has the channels of AgentState only, so
\* state.get("run_id", ...) and state.get("user_id", ...) give their defaults.
update_memory_node(st, records, stored, fresh_id) ==
    LET personas == personas_to_store(st)
    IN  records \o [i \in 1..stored |->
                       [agent_name |-> personas[i],
                        run_id     |-> fresh_id,
                        user_id    |-> "system",
                        message    |-> memory_message(st.task,
                                                      st.recommendations[personas[i]]),
                        sender     |-> "agent"]]

\* a run file that holds only the recommendations that reached the vector
\* memory
run_file_of_stored(request, agents, final_state) ==
    [task            |-> request.task,
     user_profile    |-> request.user_profile,
     turns           |-> request.turns,
     agents          |-> agents,
     recommendations |->
         [persona \in {memory[i].agent_name : i \in 1..Len(memory)} |->
              final_state.recommendations[persona]]]

\* the content of runs/run_<run_id>.json
run_file(request, agents, final_state) ==
    [task            |-> request.task,
     user_profile    |-> request.user_profile,
     turns           |-> request.turns,
     agents          |-> agents,
     recommendations |-> final_state.recommendations]

\* the dict run_meeting returns for a rejected agents list
invalid_agent_result(persona) ==
    [error |-> "Invalid agent identifier: " \o persona, status |-> "failed"]

\* the dict run_meeting returns after the run
meeting_result(run_id, final_state) ==
    [run_id |-> run_id, recommendations |-> final_state.recommendations]

\* the agents of the run: PERSONAS when the caller passed none
effective_agents(agents) == IF agents = <<>> THEN PERSONAS ELSE agents

\* the position of the first agent create_agent_node raises for (0 if none)
first_invalid(agents) ==
    IF \E i \in 1..Len(agents) : get_agent_metadata(agents[i]).raises
    THEN CHOOSE i \in 1..Len(agents) :
             /\ get_agent_metadata(agents[i]).raises
             /\ \A j \in 1..(i - 1) : ~get_agent_metadata(agents[j]).raises
    ELSE 0

\* the channels of AgentState as graph.invoke(initial_state) sets them
meeting_initial_state(request, agents) ==
    [messages        |-> <<>>,
     recommendations |-> <<>>,
     task            |-> request.task,
     user_profile    |-> request.user_profile,
     current_turn    |-> 0,
     agents          |-> agents,
     turns           |-> request.turns,
     meeting_type    |-> "board"]

----------------------------------------------------------------------------
(* The meeting as a state machine *)

MeetingRequests ==
    [task : Tasks, user_profile : UserProfiles, turns : 0..MaxTurns,
     agents : DistinctSeqs(AgentPool, MaxAgents)]

\* no twin conversation is running
TwinIdle ==
    /\ pc = "idle"
    /\ state \in {initial_state(q) : q \in Queries}
    /\ genai_configured = FALSE
    /\ api_key = TRUE
    /\ result = <<>>
    /\ exc = ""
    /\ trace = <<>>
    /\ synthesis = ""
    /\ backend_ok = FALSE
    /\ queried = <<>>
    /\ retrieved_nothing = FALSE
    /\ retrieved_unscored = FALSE
    /\ retrieve_left = <<>>
    /\ decide_calls = <<>>

MeetingInit ==
    /\ TwinIdle
    /\ MeetingIdle
    /\ MergeIdle
    /\ CallsIdle

\* the personas whose branches have returned their update
Finished == {m_writes[i].persona : i \in 1..Len(m_writes)}

\* the branches of the running superstep that have not finished
Pending == Range(m_state.agents) \ Finished

\* a fan-in that waits for the first branch only
AnyBranchFinished == Finished # {}

\* after_recommend is due: every recommend_* node of the superstep has returned
AllBranchesFinished == Pending = {}

\* app_graph.invoke is called without a config: the library's default limit
\* on the supersteps of one invocation applies
recursion_limit == 25

\* the supersteps of the graph that have completed: four per round
\* (start_recommend, the recommend_* nodes, after_recommend, increment), then
\* update_memory
Supersteps ==
    IF m_pc = "start_recommend" THEN 4 * m_state.current_turn
    ELSE IF m_pc = "recommend"
    THEN 4 * m_state.current_turn + 1 + (IF AllBranchesFinished THEN 1 ELSE 0)
    ELSE IF m_pc = "increment" THEN 4 * m_state.current_turn + 3
    ELSE IF m_pc = "update_memory" THEN 4 * m_state.current_turn
    ELSE 4 * m_state.current_turn + 1

\* the next superstep may run
MeetingCanStep == Supersteps < recursion_limit

\* run_meeting with an agents list create_agent_node raises ValueError for
RunMeetingRejected ==
    /\ m_pc = "idle"
    /\ \E request \in MeetingRequests :
         LET agents == effective_agents(request.agents)
         IN  /\ first_invalid(agents) # 0
             /\ m_request' = <<request>>
             /\ m_result' = <<invalid_agent_result(agents[first_invalid(agents)])>>
    /\ m_pc' = "rejected"
    /\ UNCHANGED <<m_state, m_writes, m_inputs, m_calls, m_generations, m_run_id,
                   uuids, memory, runs>>
    /\ UNCHANGED <<twin_vars, merge_call, calls>>

\* run_meeting up to app_graph.invoke(initial_state): START -> start_recommend
RunMeeting ==
    /\ m_pc = "idle"
    /\ \E request \in MeetingRequests :
         LET agents == effective_agents(request.agents)
         IN  /\ first_invalid(agents) = 0
             /\ m_request' = <<request>>
             /\ m_state' = meeting_initial_state(request, agents)
             /\ m_calls' = [persona \in Range(agents) |->
                               [count |-> 0, output |-> "", failed |-> FALSE]]
    /\ uuids' = uuids + 1
    /\ m_run_id' = uuid4(uuids')
    /\ m_pc' = "start_recommend"
    /\ UNCHANGED <<m_writes, m_inputs, m_generations, memory, runs, m_result>>
    /\ UNCHANGED <<twin_vars, merge_call, calls>>

\* the node start_recommend; the recommend_* branches become due
StartRecommend ==
    /\ m_pc = "start_recommend"
    /\ MeetingCanStep
    /\ m_state' = pass_through(m_state)
    /\ m_writes' = <<>>
    /\ m_inputs' = <<>>
    /\ m_pc' = "recommend"
    /\ UNCHANGED <<m_request, m_calls, m_generations, m_run_id, uuids, memory, runs,
                   m_result>>
    /\ UNCHANGED <<twin_vars, merge_call, calls>>

\* one recommend_<persona> branch runs; generate_content answers gen
AgentNode ==
    /\ m_pc = "recommend"
    /\ MeetingCanStep
    /\ \E persona \in Pending :
       \E gen \in RecommendationOutcomes(persona, m_state.current_turn) :
         LET view == branch_state(m_state, m_writes)
             update == agent_node(view, persona, gen)
         IN  /\ m_writes' = Append(m_writes, [persona |-> persona, update |-> update])
             /\ m_inputs' = (persona :> [recommendations |-> view.recommendations,
                                         prompt |-> agent_prompt(view, persona)])
                            @@ m_inputs
             /\ m_calls' = [m_calls EXCEPT ![persona] =
                               [count  |-> @.count + 1,
                                output |-> update.recommendations[persona],
                                failed |-> gen.raises]]
    /\ m_generations' = m_generations + 1
    /\ UNCHANGED <<m_pc, m_request, m_state, m_run_id, uuids, memory, runs, m_result>>
    /\ UNCHANGED <<twin_vars, merge_call, calls>>

\* all branches have finished: their updates are merged into the channels,
\* then the node after_recommend runs
AfterRecommend ==
    /\ m_pc = "recommend"
    /\ MeetingCanStep
    /\ AllBranchesFinished
    /\ m_state' = pass_through(apply_writes(m_state, m_writes))
    /\ m_writes' = <<>>
    /\ m_inputs' = <<>>
    /\ m_pc' = "increment"
    /\ UNCHANGED <<m_request, m_calls, m_generations, m_run_id, uuids, memory, runs,
                   m_result>>
    /\ UNCHANGED <<twin_vars, merge_call, calls>>

\* the node increment followed by the conditional edge decide_to_continue
IncrementTurn ==
    /\ m_pc = "increment"
    /\ MeetingCanStep
    /\ m_state' = increment_turn(m_state)
    /\ m_pc' = IF decide_to_continue(m_state') = "continue"
               THEN "start_recommend"
               ELSE "update_memory"
    /\ UNCHANGED <<m_request, m_writes, m_inputs, m_calls, m_generations, m_run_id,
                   uuids, memory, runs, m_result>>
    /\ UNCHANGED <<twin_vars, merge_call, calls>>

\* the node update_memory; graph.invoke returns after it
UpdateMemoryNode ==
    /\ m_pc = "update_memory"
    /\ MeetingCanStep
    /\ uuids' = uuids + 1
    /\ \E stored \in 0..Len(personas_to_store(m_state)) :
         memory' = update_memory_node(m_state, memory, stored, uuid4(uuids'))
    /\ m_state' = pass_through(m_state)
    /\ m_pc' = "END"
    /\ UNCHANGED <<m_request, m_writes, m_inputs, m_calls, m_generations, m_run_id,
                   runs, m_result>>
    /\ UNCHANGED <<twin_vars, merge_call, calls>>

\* run_meeting after graph.invoke: the run file is written, the dict returned
SaveRun ==
    /\ m_pc = "END"
    /\ runs' = (m_run_id :> run_file(m_request[1], m_state.agents, m_state)) @@ runs
    /\ m_result' = <<meeting_result(m_run_id, m_state)>>
    /\ m_pc' = "done"
    /\ UNCHANGED <<m_request, m_state, m_writes, m_inputs, m_calls, m_generations,
                   m_run_id, uuids, memory>>
    /\ UNCHANGED <<twin_vars, merge_call, calls>>

\* a node is due but the supersteps are used up: app_graph.invoke raises
\* GraphRecursionError, which run_meeting does not catch
MeetingRecursionLimit ==
    /\ m_pc \in {"start_recommend", "recommend", "increment", "update_memory"}
    /\ ~MeetingCanStep
    /\ m_pc' = "raised"
    /\ UNCHANGED <<m_request, m_state, m_writes, m_inputs, m_calls, m_generations,
                   m_run_id, uuids, memory, runs, m_result>>
    /\ UNCHANGED <<twin_vars, merge_call, calls>>

MeetingNext ==
    \/ RunMeetingRejected
    \/ RunMeeting
    \/ StartRecommend
    \/ AgentNode
    \/ AfterRecommend
    \/ IncrementTurn
    \/ UpdateMemoryNode
    \/ SaveRun

SpecMeeting == MeetingInit /\ [][MeetingNext]_vars

\* graph.invoke and run_meeting run every step that is due
SpecMeetingFair == SpecMeeting /\ WF_vars(MeetingNext)

\* the rounds a run can complete within the limit, update_memory included
rounds_within_limit == (recursion_limit - 1) \div 4

\* requests for long runs of one agent: as many turns as fit, and one more
LongMeetingRequests ==
    [task : Tasks, user_profile : UserProfiles,
     turns : {rounds_within_limit, rounds_within_limit + 1},
     agents : {<<"Sam_Altman">>, <<"twin_7">>}]

\* run_meeting called with a long request
RunLongMeeting ==
    /\ m_pc = "idle"
    /\ \E request \in LongMeetingRequests :
         LET agents == effective_agents(request.agents)
         IN  /\ first_invalid(agents) = 0
             /\ m_request' = <<request>>
             /\ m_state' = meeting_initial_state(request, agents)
             /\ m_calls' = [persona \in Range(agents) |->
                               [count |-> 0, output |-> "", failed |-> FALSE]]
    /\ uuids' = uuids + 1
    /\ m_run_id' = uuid4(uuids')
    /\ m_pc' = "start_recommend"
    /\ UNCHANGED <<m_writes, m_inputs, m_generations, memory, runs, m_result>>
    /\ UNCHANGED <<twin_vars, merge_call, calls>>

LongMeetingNext ==
    \/ RunLongMeeting
    \/ StartRecommend
    \/ AgentNode
    \/ AfterRecommend
    \/ IncrementTurn
    \/ UpdateMemoryNode
    \/ SaveRun
    \/ MeetingRecursionLimit

SpecLongMeeting == MeetingInit /\ [][LongMeetingNext]_vars

SpecLongMeetingFair == SpecLongMeeting /\ WF_vars(LongMeetingNext)


----------------------------------------------------------------------------
(***************************************************************************)
(* The reducers of the recommendations channel on their own: merge_dicts   *)
(* of models.py and merge_recommendations of attached_assets/utils, called *)
(* once with a current mapping and an update, then again with the result   *)
(* and the same update.  A call is recorded with the mapping object the    *)
(* caller passed as it is after the call.                                  *)
(***************************************************************************)

MergeKeys == {"Sam_Altman", "twin_7"}

MergeTexts == {"<p>first</p>", "<p>second</p>"}

\* the mappings persona -> text over MergeKeys
Mappings == UNION {[D -> MergeTexts] : D \in SUBSET MergeKeys}

Reducers == {"merge_dicts", "merge_recommendations"}

\* merge_recommendations: current.update(update); return current -- the
\* caller's mapping after the call, and the mapping returned (the same object)
merge_recommendations(current, update) ==
    LET updated == [k \in DOMAIN current \cup DOMAIN update |->
                       IF k \in DOMAIN update THEN update[k] ELSE current[k]]
    IN  [current |-> updated, returned |-> updated]

\* a call of the reducer fn: the caller's mapping after it and the result
call_reducer(fn, current, update) ==
    IF fn = "merge_dicts"
    THEN [current |-> current, returned |-> merge_dicts(current, update)]
    ELSE merge_recommendations(current, update)

MergeInit ==
    /\ TwinIdle
    /\ MeetingIdle
    /\ CallsIdle
    /\ \E fn \in Reducers, current \in Mappings, update \in Mappings :
         merge_call = [phase   |-> "start",
                       fn      |-> fn,
                       before  |-> current,
                       current |-> current,
                       update  |-> update,
                       once    |-> <<>>,
                       twice   |-> <<>>]

\* the reducer is called with the current mapping and the update
MergeOnce ==
    /\ merge_call.phase = "start"
    /\ LET call == call_reducer(merge_call.fn, merge_call.current, merge_call.update)
       IN  merge_call' = [merge_call EXCEPT !.phase = "once",
                                            !.current = call.current,
                                            !.once = call.returned]
    /\ UNCHANGED <<twin_vars, meeting_vars, calls>>

\* the reducer is called again, with its result and the same update
MergeAgain ==
    /\ merge_call.phase = "once"
    /\ LET call == call_reducer(merge_call.fn, merge_call.once, merge_call.update)
       IN  merge_call' = [merge_call EXCEPT !.phase = "twice",
                                            !.twice = call.returned]
    /\ UNCHANGED <<twin_vars, meeting_vars, calls>>

MergeNext ==
    \/ MergeOnce
    \/ MergeAgain

SpecMerge == MergeInit /\ [][MergeNext]_vars

----------------------------------------------------------------------------
(***************************************************************************)
(* Invocations of run_twin_conversation side by side.  Each call builds    *)
(* its own initial_state dict and its own graph (build_twin_graph with a   *)
(* new MemorySaver); the module global _genai_configured and the           *)
(* environment are what the calls have in common.  The answers of the      *)
(* vector store and of the generator are drawn from a few cases per node.  *)
(***************************************************************************)

\* a partition query that returns no document
EmptyResult == [raises |-> FALSE, documents |-> <<>>, distances |-> <<>>]

\* a partition query that returns close documents
NearResult(n_results) ==
    LET n == Min(n_results, DocsPerQuery)
    IN  [raises |-> FALSE, documents |-> Documents(n),
         distances |-> [i \in 1..n |-> 20]]

\* what the backends answer to one execution of a node
NodeAnswers(node) ==
    CASE node = "retrieve" ->
             { [node |-> "retrieve", collections_raise |-> FALSE,
                client_raises |-> FALSE, style |-> EmptyResult,
                context |-> EmptyResult, decision |-> EmptyResult],
               [node |-> "retrieve", collections_raise |-> FALSE,
                client_raises |-> FALSE, style |-> NearResult(n_results_style),
                context |-> NearResult(n_results_context),
                decision |-> NearResult(n_results_decision)] }
      [] node = "decision" ->
             { [node |-> "decision",
                proposal |-> Generation(FALSE, "Enter the new market now."),
                critique |-> critique_gen,
                moderator |-> Generation(FALSE, "Enter the market in two phases.")] :
               critique_gen \in { Generation(TRUE, ""),
                                  Generation(FALSE, "There is a Significant Risk of overreach.") } }
      [] node = "escalate" ->
             { [node |-> "escalate", gen |-> gen] :
               gen \in { Generation(TRUE, ""),
                         Generation(FALSE, "Follow general best practices.") } }
      [] OTHER -> { [node |-> node] }

\* the state a node returns, given the state it is called with and what the
\* backends answer
node_update(st, node, answer) ==
    CASE node = "retrieve" ->
             retrieve_node(st, answer.collections_raise, answer.style,
                           answer.client_raises, answer.context, answer.decision)
      [] node = "personalize" -> personalize_node(st)
      [] node = "decision" ->
             decision_node(st, answer.proposal, answer.critique, answer.moderator)
      [] node = "escalate" -> escalate_node(st, answer.gen)
      [] node = "generate" -> generate_node(st)

\* the node that is due after node has returned st
next_node(node, st) ==
    IF node = "decision" THEN route_after_decision(st) ELSE edge(node)

\* run_twin_conversation on its own, _genai_configured not yet set: the dict
\* it returns when the backends give the listed answers to its nodes (if the
\* answers are not those of this run, the replay stops at the state it has)
RECURSIVE solo_result(_, _, _, _, _)
solo_result(node, st, steps, answers, key) ==
    IF node = "END" THEN result_of(st)
    ELSE IF steps >= MaxSupersteps THEN fallback_result(recursion_error)
    ELSE IF node = "decision" /\ ~key THEN fallback_result(config_error)
    ELSE IF answers = <<>> \/ Head(answers).node # node THEN result_of(st)
    ELSE LET st2 == node_update(st, node, Head(answers))
         IN  solo_result(next_node(node, st2), st2, steps + 1, Tail(answers), key)

\* graph state kept in one place for all calls
shared_state(all_calls, i) ==
    IF all_calls[1].state # <<>> THEN all_calls[1].state ELSE all_calls[i].state

\* the state the graph of call i works on: the dict that call built
own_state(all_calls, i) == all_calls[i].state

\* run_twin_conversation up to graph.invoke(initial_state)
CallStart ==
    \E i \in Invocations, q \in Queries :
        /\ calls[i].pc = "idle"
        /\ calls' = [calls EXCEPT ![i] = [@ EXCEPT !.pc = edge("START"),
                                                   !.state = initial_state(q)]]
        /\ UNCHANGED <<twin_vars, meeting_vars, merge_call>>

\* decision_node of call i raises in ensure_genai_configured
CallConfigError ==
    \E i \in Invocations :
        /\ calls[i].pc = "decision"
        /\ calls[i].steps < MaxSupersteps
        /\ EnsureRaises
        /\ calls' = [calls EXCEPT ![i] = [@ EXCEPT !.pc = "raised",
                                                   !.exc = config_error,
                                                   !.steps = @ + 1]]
        /\ UNCHANGED <<twin_vars, meeting_vars, merge_call>>

\* one node of call i's graph runs, followed by its outgoing edge
CallNode ==
    \E i \in Invocations :
        /\ calls[i].pc \in Nodes
        /\ calls[i].steps < MaxSupersteps
        /\ calls[i].pc = "decision" => ~EnsureRaises
        /\ \E answer \in NodeAnswers(calls[i].pc) :
             LET node == calls[i].pc
                 st2  == node_update(own_state(calls, i), node, answer)
             IN  calls' = [calls EXCEPT ![i] =
                              [@ EXCEPT !.pc = next_node(node, st2),
                                        !.state = st2,
                                        !.steps = @ + 1,
                                        !.answers = Append(@, answer)]]
        /\ genai_configured' = (genai_configured \/ calls[i].pc = "decision")
        /\ UNCHANGED <<pc, state, api_key, result, exc, trace, synthesis, backend_ok,
                       queried, retrieved_nothing, retrieved_unscored, retrieve_left,
                       decide_calls>>
        /\ UNCHANGED <<meeting_vars, merge_call>>

\* a node of call i is due but the supersteps are used up
CallRecursionLimit ==
    \E i \in Invocations :
        /\ calls[i].pc \in Nodes
        /\ calls[i].steps >= MaxSupersteps
        /\ calls' = [calls EXCEPT ![i] = [@ EXCEPT !.pc = "raised",
                                                   !.exc = recursion_error]]
        /\ UNCHANGED <<twin_vars, meeting_vars, merge_call>>

\* graph.invoke of call i returned final_state
CallReturn ==
    \E i \in Invocations :
        /\ calls[i].pc = "END"
        /\ calls' = [calls EXCEPT ![i] = [@ EXCEPT !.pc = "returned",
                                                   !.result = <<result_of(calls[i].state)>>]]
        /\ UNCHANGED <<twin_vars, meeting_vars, merge_call>>

\* the except branch of call i
CallFallback ==
    \E i \in Invocations :
        /\ calls[i].pc = "raised"
        /\ calls' = [calls EXCEPT ![i] = [@ EXCEPT !.pc = "returned",
                                                   !.result = <<fallback_result(calls[i].exc)>>]]
        /\ UNCHANGED <<twin_vars, meeting_vars, merge_call>>

CallsNext ==
    \/ CallStart
    \/ CallConfigError
    \/ CallNode
    \/ CallRecursionLimit
    \/ CallReturn
    \/ CallFallback

SpecCalls == Init /\ [][CallsNext]_vars

----------------------------------------------------------------------------
(* Vocabulary of the properties *)

\* Retrieve has run in the current invocation
AfterRetrieve == pc \notin {"idle", "retrieve"}

\* run_twin_conversation has returned to its caller
Returned == pc = "returned"

\* the node the invocation executed last
EscalateRan == trace # <<>> /\ Last(trace) = "escalate"
GenerateRan == trace # <<>> /\ Last(trace) = "generate"

\* executions of the Decide node in the current invocation
DecideVisits == Cardinality({i \in 1..Len(trace) : trace[i] = "decision"})

\* times the edge Decide -> Decide was followed into another Decide pass
FeedbackEdges ==
    Cardinality({i \in 1..(Len(trace) - 1) :
                    trace[i] = "decision" /\ trace[i + 1] = "decision"})

ConfidenceSum ==
    state.style_confidence + state.context_confidence + state.decision_confidence

\* the text names the overall score as its confidence
StatesConfidence(text, overall) ==
    Contains(text, "Confidence: " \o ToString(overall) \o "%")

----------------------------------------------------------------------------
(* Properties of the twin conversation workflow *)

\* C1: the Decide node is visited at most twice per invocation and the
\* feedback edge Decide -> Decide is taken at most once, whatever the critiques.
C1_DecideAtMostTwice == DecideVisits <= 2 /\ FeedbackEdges <= 1

\* C2: in every terminal state (after Escalate, after Generate, after the
\* outer fallback) the final response is a non-empty string.
C2_FinalResponseNonEmpty ==
    /\ pc = "END" => state.final_response # ""
    /\ Returned => result[1].response # ""

C4_EscalationCarriesCaveat ==
    EscalateRan =>
        /\ StatesConfidence(state.final_response, state.overall_confidence)
        /\ Contains(state.final_response, "connect")

\* C5: run_twin_conversation always returns a result, with the four
\* confidence fields set, a non-empty response and, when every backend call
\* failed, escalated = true.
C5_AlwaysReturnsCoherentResult ==
    /\ pc = "raised" => ENABLED UltimateFallback
    /\ Returned =>
          /\ Len(result) = 1
          /\ \A k \in {"style", "context", "decision", "overall"} :
                result[1].confidence[k] \in 0..100
          /\ result[1].response # ""
          /\ ~backend_ok => result[1].escalated

\* C6: after Retrieve each of the four confidences is an integer in 0..100.
C6_ConfidenceInRange ==
    AfterRetrieve =>
        /\ state.style_confidence \in 0..100
        /\ state.context_confidence \in 0..100
        /\ state.decision_confidence \in 0..100
        /\ state.overall_confidence \in 0..100

\* a scored partition averaging 0.70, and one whose distances are all past 1.0
C6_Witness ==
    /\ pc = "personalize"
    /\ state.style_confidence = 30
    /\ state.business_context # "" /\ state.context_confidence = 0

\* C7 as stated: overall confidence is the mean of the three partition
\* confidences rounded to the nearest integer.
C7_OverallIsRoundedMean ==
    AfterRetrieve =>
        state.overall_confidence =
            OverallConfidenceRounded(state.style_confidence, state.context_confidence,
                                     state.decision_confidence)

\* C7 amended: overall confidence is the mean of the three partition
\* confidences truncated to an integer (rounded down).
C7_OverallIsTruncatedMean ==
    AfterRetrieve =>
        /\ 3 * state.overall_confidence <= ConfidenceSum
        /\ ConfidenceSum < 3 * state.overall_confidence + 3

\* a mean whose fractional part is two thirds
C7_Witness == AfterRetrieve /\ ConfidenceSum % 3 = 2

\* C8: from the end of Retrieve on, low_confidence is true exactly when
\* overall confidence is below 30.
C8_LowConfidenceIffBelow30 ==
    AfterRetrieve => (state.low_confidence <=> state.overall_confidence < 30)

\* overall confidence exactly 30 is not low, up to the terminal state
C8_Witness ==
    /\ Returned
    /\ state.overall_confidence = 30
    /\ ~state.low_confidence

\* C9: Generate appends a confidence disclaimer to the synthesis of the last
\* Decide pass exactly when overall confidence is below 70; otherwise the
\* final response is that synthesis, unchanged.
C9_DisclaimerIffBelow70 ==
    GenerateRan =>
        LET final == state.final_response
            n == Len(synthesis)
        IN  IF state.overall_confidence < 70
            THEN /\ Len(final) > n
                 /\ SubSeq(final, 1, n) = synthesis
                 /\ StatesConfidence(SubSeq(final, n + 1, Len(final)),
                                     state.overall_confidence)
            ELSE final = synthesis

\* overall confidence exactly 70: the synthesis is returned as it is
C9_Witness ==
    /\ GenerateRan
    /\ state.overall_confidence = 70
    /\ synthesis # ""
    /\ state.final_response = synthesis

\* C10: on every path the result carries a non-empty proposal, a non-empty
\* critique and a non-empty final response.
C10_ProposalCritiqueResponseNonEmpty ==
    Returned =>
        /\ result[1].proposal # ""
        /\ result[1].critique # ""
        /\ result[1].response # ""

----------------------------------------------------------------------------
(* Retrieve: failure handling *)

\* the query of a partition threw or returned no documents
PartitionFailed(res) == res.raises \/ Len(res.documents) = 0

\* Retrieve has just run and the vector store's answers are on record
RetrieveDone == pc = "personalize" /\ queried # <<>>

\* C11: Retrieve never raises (the invocation is past it with no exception,
\* and no exception arises before Decide); for each of the three partitions,
\* if its query threw or it returned no documents (or the setup before it
\* threw), its text is "" and its confidence is 0; and the state handed on
\* has all three texts and all four confidence fields set, the confidences
\* being integers in 0..100.
C11_RetrieveNeverRaises ==
    /\ exc # "" => \E i \in 1..Len(trace) : trace[i] = "decision"
    /\ RetrieveDone =>
         LET q == queried[1]
         IN  /\ trace = <<"retrieve">>
             /\ exc = ""
             /\ (q.collections_raise \/ PartitionFailed(q.style))
                    => state.communication_style = "" /\ state.style_confidence = 0
             /\ (q.collections_raise \/ q.client_raises \/ PartitionFailed(q.context))
                    => state.business_context = "" /\ state.context_confidence = 0
             /\ (q.collections_raise \/ q.client_raises \/ PartitionFailed(q.decision))
                    => state.decision_history = "" /\ state.decision_confidence = 0
             /\ {"communication_style", "business_context", "decision_history",
                  "style_confidence", "context_confidence", "decision_confidence",
                  "overall_confidence"} \subseteq DOMAIN state
             /\ \A c \in {state.style_confidence, state.context_confidence,
                           state.decision_confidence, state.overall_confidence} :
                    c \in 0..100

\* the style query threw, business context returned no documents, and the
\* decision history returned documents: only the last has text and a score
C11_Witness ==
    /\ RetrieveDone
    /\ ~queried[1].collections_raise
    /\ ~queried[1].client_raises
    /\ queried[1].style.raises
    /\ ~queried[1].context.raises
    /\ Len(queried[1].context.documents) = 0
    /\ ~PartitionFailed(queried[1].decision)
    /\ state.communication_style = ""
    /\ state.style_confidence = 0
    /\ state.context_confidence = 0
    /\ state.decision_history # ""
    /\ state.decision_confidence > 0

----------------------------------------------------------------------------
(* The escalated flag *)

\* the Escalate node executed in the current invocation
EscalateExecuted == \E i \in 1..Len(trace) : trace[i] = "escalate"

----------------------------------------------------------------------------
(* Meeting runs: vocabulary of the properties *)

\* run_meeting accepted the agents and the graph was invoked
MeetingAccepted == m_pc \notin {"idle", "rejected"}

\* run_meeting has returned the run's result
MeetingDone == m_pc = "done"

RunAgents == Range(m_state.agents)

\* an identifier that is neither a roster key nor has the twin_ prefix
UnknownId(agent) == agent \notin Range(PERSONAS) /\ ~StartsWith(agent, "twin_")

\* the texts persona's node can return in the given round when its call succeeds
GeneratedTexts(persona, round) ==
    {markdown(gen.text) : gen \in {g \in RecommendationOutcomes(persona, round - 1) :
                                       ~g.raises}}

C13_FinalTurnTexts ==
    MeetingDone =>
        LET recommendations == m_result[1].recommendations
        IN  /\ DOMAIN recommendations = RunAgents
            /\ runs[m_run_id].recommendations = recommendations
            /\ \A persona \in RunAgents :
                 /\ recommendations[persona] = m_calls[persona].output
                 /\ (m_state.turns >= 1 /\ ~m_calls[persona].failed) =>
                        recommendations[persona] \in GeneratedTexts(persona, m_state.turns)

\* two personas, two turns: both entries are the round-2 texts
C13_Witness ==
    /\ MeetingDone
    /\ m_state.turns = 2
    /\ m_state.agents = <<"Sam_Altman", "twin_7">>
    /\ m_result[1].recommendations["Sam_Altman"] = markdown(advice("Sam_Altman", 2))
    /\ m_result[1].recommendations["twin_7"] = markdown(advice("twin_7", 2))

\* C14: a run with turns = 0 executes no persona node and the run file it
\* writes holds an empty recommendations mapping.
C14_ZeroTurnsZeroRounds ==
    (MeetingAccepted /\ m_state.turns = 0) =>
        /\ \A persona \in RunAgents : m_calls[persona].count = 0
        /\ m_generations = 0
        /\ MeetingDone => runs[m_run_id].recommendations = <<>>

\* C15: if the agents of a run contain an unknown identifier, run_meeting
\* returns a validation error and nothing else has happened: no persona node
\* executed, no generation call was made, no graph state exists, no run file
\* was written and no memory stored.
C15_UnknownAgentRejectsRun ==
    (m_request # <<>>
        /\ \E agent \in Range(effective_agents(m_request[1].agents)) : UnknownId(agent)) =>
        /\ m_pc = "rejected"
        /\ m_result # <<>>
        /\ DOMAIN m_result[1] = {"error", "status"}
        /\ m_result[1].status = "failed"
        /\ m_state = <<>>
        /\ m_calls = <<>>
        /\ m_generations = 0
        /\ m_inputs = <<>>
        /\ runs = <<>>
        /\ memory = <<>>

\* a valid agent listed before the unknown one: the run is rejected all the same
C15_Witness ==
    /\ m_pc = "rejected"
    /\ m_request[1].agents = <<"Sam_Altman", "nonexistent_agent">>
    /\ m_result[1].error = "Invalid agent identifier: nonexistent_agent"
    /\ m_generations = 0

\* C16: while the branches of a turn run, in whatever order they finish, the
\* state a persona's call read is the state the turn began with (no update
\* of a branch of the same turn is in it), and the prompt of persona A's call
\* does not contain the (non-empty) text a different persona B returned in
\* that turn.
C16_NoSameTurnOutputInInput ==
    m_pc = "recommend" =>
        \A a \in DOMAIN m_inputs :
            /\ m_inputs[a].recommendations = m_state.recommendations
            /\ \A i \in 1..Len(m_writes) :
                 LET b == m_writes[i].persona
                     output == Get(m_writes[i].update.recommendations, b, "")
                 IN  (b # a /\ output # "") => ~Contains(m_inputs[a].prompt, output)

\* second turn: twin_7 has returned its round-2 text, then Sam_Altman's call
\* was made with its own round-1 text as the previous recommendation
C16_Witness ==
    /\ m_pc = "recommend"
    /\ m_state.current_turn = 1
    /\ Len(m_writes) = 2
    /\ m_writes[1].persona = "twin_7"
    /\ m_writes[1].update.recommendations["twin_7"] = markdown(advice("twin_7", 2))
    /\ m_writes[2].persona = "Sam_Altman"
    /\ Contains(m_inputs["Sam_Altman"].prompt, markdown(advice("Sam_Altman", 1)))

\* the call of some persona has failed in the running or an earlier turn
SomeCallFailed ==
    /\ MeetingAccepted
    /\ \E persona \in RunAgents : m_calls[persona].failed

\* after the fan-in of a turn: the entry of a persona whose call failed is the
\* fallback string, the entry of every other persona is the text generated
\* for it in this turn
FailureStaysLocal ==
    m_pc = "increment" =>
        \A persona \in RunAgents :
            /\ m_calls[persona].failed =>
                 m_state.recommendations[persona] = fallback_recommendation(persona)
            /\ ~m_calls[persona].failed =>
                 /\ m_state.recommendations[persona] = m_calls[persona].output
                 /\ m_state.recommendations[persona]
                        \in GeneratedTexts(persona, m_state.current_turn + 1)

----------------------------------------------------------------------------
(* The recommendations merge *)

\* C17: for every mapping m and every update u, merging u into m and then u
\* into the result gives the same mapping as merging u into m once.
C17_MergeIdempotent ==
    merge_call.phase = "twice" => merge_call.twice = merge_call.once

\* the update overwrites a key of the current mapping with another text and
\* adds a key; merge_dicts was applied twice
C17_Witness ==
    /\ merge_call.phase = "twice"
    /\ merge_call.fn = "merge_dicts"
    /\ merge_call.before = ("Sam_Altman" :> "<p>first</p>")
    /\ merge_call.update = ("Sam_Altman" :> "<p>second</p>") @@ ("twin_7" :> "<p>first</p>")
    /\ merge_call.twice = merge_call.update

\* C18: after one merge the result's key set is the union of the key sets of
\* the current mapping and the update, a key of the update has the update's
\* value, a key of the current mapping only keeps its value, and the mapping
\* the caller passed as current is what it was before the call.
C18_RightBiasedUnionLeavesCurrent ==
    merge_call.phase = "once" =>
        /\ DOMAIN merge_call.once = DOMAIN merge_call.before \cup DOMAIN merge_call.update
        /\ \A k \in DOMAIN merge_call.update : merge_call.once[k] = merge_call.update[k]
        /\ \A k \in DOMAIN merge_call.before \ DOMAIN merge_call.update :
               merge_call.once[k] = merge_call.before[k]
        /\ merge_call.current = merge_call.before

----------------------------------------------------------------------------
(* The twin workflow: termination, order of the nodes, the Decide pass *)

\* C21: under fair scheduling every invocation that has started eventually
\* has Escalate or Generate as the node it executed last.
C21_EventuallyEscalateOrGenerate ==
    (pc = "retrieve") ~> (EscalateRan \/ GenerateRan)

\* C22: in every invocation Retrieve is the first node executed and runs only
\* then, Personalize is the second and runs only then, Decide is entered only
\* directly after Personalize or (looping) after Decide, Escalate and Generate
\* are entered only directly after Decide and nothing runs after them; the
\* node that is due next fits the same order.
C22_NodeOrder ==
    /\ \A i \in 1..Len(trace) :
         /\ (trace[i] = "retrieve") <=> (i = 1)
         /\ (trace[i] = "personalize") <=> (i = 2)
         /\ trace[i] = "decision" =>
              i >= 3 /\ trace[i - 1] \in {"personalize", "decision"}
         /\ trace[i] \in {"escalate", "generate"} =>
              i >= 3 /\ trace[i - 1] = "decision" /\ i = Len(trace)
    /\ pc = "retrieve" => trace = <<>>
    /\ pc = "personalize" => trace = <<"retrieve">>
    /\ pc = "decision" => Len(trace) >= 2 /\ Last(trace) \in {"personalize", "decision"}
    /\ pc \in {"escalate", "generate"} => Last(trace) = "decision"
    /\ pc = "END" => Last(trace) \in {"escalate", "generate"}

\* an invocation with one feedback loop that ended in Generate
C22_Witness ==
    /\ Returned
    /\ exc = ""
    /\ trace = <<"retrieve", "personalize", "decision", "decision", "generate">>

\* a Decide pass has just run to its end (the router has chosen the next node)
JustDecided ==
    /\ pc \in {"decision", "escalate", "generate"}
    /\ trace # <<>>
    /\ Last(trace) = "decision"
    /\ Len(decide_calls) = 3

\* C23: if in a Decide pass the proposal call returns a non-empty text, the
\* critique call raises and the synthesis call does not, then after the pass
\* proposal is the generated text, critique is the literal fallback critique,
\* the synthesis call was made with a prompt built from exactly that proposal
\* and the fallback critique, and final_response is what it returned.
C23_CritiqueFailureKeepsSynthesis ==
    (/\ JustDecided
     /\ ~decide_calls[1].raises
     /\ decide_calls[1].text # ""
     /\ decide_calls[2].raises
     /\ ~decide_calls[3].raises) =>
        /\ state.proposal = decide_calls[1].text
        /\ state.critique = critique_fallback
        /\ decide_calls[3].prompt =
               moderator_prompt(state, decide_calls[1].text, critique_fallback)
        /\ Contains(decide_calls[3].prompt, "Proposal: " \o decide_calls[1].text)
        /\ Contains(decide_calls[3].prompt, "Critique: " \o critique_fallback)
        /\ state.final_response = decide_calls[3].text

\* the critique call failed alone and the synthesis was generated
C23_Witness ==
    /\ JustDecided
    /\ ~decide_calls[1].raises
    /\ decide_calls[2].raises
    /\ ~decide_calls[3].raises
    /\ state.proposal = "Enter the new market now."
    /\ state.critique = critique_fallback
    /\ state.final_response = "Enter the market in two phases."

\* C24: if all three partitions returned no documents, the returned result
\* has overall confidence 0, low_confidence is true, the invocation ended in
\* Escalate and the response contains "0%".
C24_EmptyRetrievalEscalatesWithZero ==
    (Returned /\ retrieved_nothing) =>
        /\ result[1].confidence.overall = 0
        /\ state.low_confidence
        /\ EscalateRan
        /\ Contains(result[1].response, "0%")

\* C25: if all three partition confidences are at least 70, the returned
\* result is not escalated, the invocation ended in Generate and the response
\* is the synthesis with no disclaimer appended.
C25_HighConfidenceGeneratesPlain ==
    (/\ Returned
     /\ state.style_confidence >= disclaimer_threshold
     /\ state.context_confidence >= disclaimer_threshold
     /\ state.decision_confidence >= disclaimer_threshold) =>
        /\ ~result[1].escalated
        /\ GenerateRan
        /\ result[1].response = synthesis

\* C26: the partitions are independent: when get_twin_collections succeeded,
\* the style partition is what its own query gives, the business context
\* what its own setup and query give, and the decision history what its own
\* query gives, whatever happened to the other partitions.
C26_PartitionsIndependent ==
    (RetrieveDone /\ ~queried[1].collections_raise) =>
        LET q == queried[1]
            failed == [raises |-> TRUE, documents |-> <<>>, distances |-> <<>>]
            style == PartitionResult(q.style, style_default)
            context == PartitionResult(IF q.client_raises THEN failed ELSE q.context,
                                       context_default)
            decision == PartitionResult(q.decision, decision_default)
        IN  /\ state.communication_style = style.text
            /\ state.style_confidence = style.confidence
            /\ state.business_context = context.text
            /\ state.context_confidence = context.confidence
            /\ state.decision_history = decision.text
            /\ state.decision_confidence = decision.confidence

\* C27: when the router has sent the workflow back to Decide, one of the
\* prompts of the new pass contains the critique the previous pass produced.
C27_SecondPassSeesFirstCritique ==
    [][ (/\ pc = "decision"
         /\ trace # <<>>
         /\ Last(trace) = "decision"
         /\ trace' = Append(trace, "decision")
         /\ Len(decide_calls') = 3
         /\ pc' # "raised") =>
            \E i \in 1..3 : Contains(decide_calls'[i].prompt, state.critique) ]_vars

----------------------------------------------------------------------------
(* Meeting runs: the turns *)

\* s ends with x
HasSuffix(s, x) ==
    Len(s) >= Len(x) /\ SubSeq(s, Len(s) - Len(x) + 1, Len(s)) = x

\* the personas whose branch returns in this step
Returning ==
    IF m_pc = "recommend" /\ m_pc' = "recommend" THEN Finished' \ Finished ELSE {}

\* C28: a call made in the first turn asks for a recommendation and carries
\* no previous one; a call of persona p made in a later turn t comes after
\* exactly t-1 executions of p's node and its prompt ends with the text the
\* last of them returned (p's entry after the previous fan-in).
C28_PromptCarriesOwnPreviousText ==
    [][ \A p \in Returning :
          IF m_state.current_turn = 0
          THEN /\ HasSuffix(m_inputs'[p].prompt,
                            "\n\nProvide a recommendation for: '" \o m_state.task \o "'")
               /\ ~Contains(m_inputs'[p].prompt, "Previous")
               /\ m_calls[p].count = 0
          ELSE /\ m_calls[p].count = m_state.current_turn
               /\ m_state.recommendations[p] = m_calls[p].output
               /\ HasSuffix(m_inputs'[p].prompt,
                            "'\nPrevious: " \o m_calls[p].output) ]_vars

\* in the second turn Jensen_Huang's call carries its generated round-1 text
C28_Witness ==
    /\ m_pc = "recommend"
    /\ m_state.current_turn = 1
    /\ "Jensen_Huang" \in DOMAIN m_inputs
    /\ HasSuffix(m_inputs["Jensen_Huang"].prompt,
                 "'\nPrevious: " \o markdown(advice("Jensen_Huang", 1)))

\* C29: while the branches of a turn run, every persona's node has run either
\* in all earlier turns or in those and the running one (no branch is ahead
\* or behind); the turn counter changes only by one, only when every branch
\* of the turn has returned and its update is in the recommendations; and a
\* branch runs only when the updates of the previous turn are merged.
C29_TurnBarrier ==
    /\ [](m_pc = "recommend" =>
            \A p \in RunAgents :
                m_calls[p].count =
                    m_state.current_turn + (IF p \in Finished THEN 1 ELSE 0))
    /\ [][ /\ (MeetingAccepted /\ m_state'.current_turn # m_state.current_turn) =>
               /\ m_state'.current_turn = m_state.current_turn + 1
               /\ m_writes = <<>>
               /\ \A p \in RunAgents :
                    /\ m_calls[p].count = m_state.current_turn + 1
                    /\ m_state.recommendations[p] = m_calls[p].output
           /\ \A p \in Returning :
                \A q \in RunAgents :
                    /\ m_calls[q].count >= m_state.current_turn
                    /\ (m_state.current_turn > 0 /\ q \notin Finished) =>
                          m_state.recommendations[q] = m_calls[q].output ]_vars

\* two turns of two personas are over: each node ran twice
C29_Witness ==
    /\ m_pc = "update_memory"
    /\ m_state.current_turn = 2
    /\ m_state.agents = <<"twin_7", "Sam_Altman">>
    /\ \A p \in RunAgents : m_calls[p].count = 2

\* the updates of a superstep merged in the order given by a permutation
Reordered(writes, perm) == [i \in 1..Len(writes) |-> writes[perm[i]]]

\* C30: when all branches of a turn have returned, merging their updates in
\* any order gives the same recommendations as merging them in the order they
\* returned; after the fan-in every persona's entry is the text it returned.
C30_FanInOrderIndependent ==
    /\ (m_pc = "recommend" /\ Pending = {}) =>
          \A perm \in Permutations(1..Len(m_writes)) :
              apply_writes(m_state, Reordered(m_writes, perm)).recommendations
                  = apply_writes(m_state, m_writes).recommendations
    /\ m_pc = "increment" =>
          m_state.recommendations = [p \in RunAgents |-> m_calls[p].output]

\* second turn of three personas, all returned with three different texts
C30_Witness ==
    /\ m_pc = "recommend"
    /\ Pending = {}
    /\ m_state.current_turn = 1
    /\ Len(m_writes) = 3
    /\ m_writes[1].persona = "Andrew_Ng"
    /\ m_calls["Sam_Altman"].failed
    /\ m_calls["Jensen_Huang"].output = markdown(advice("Jensen_Huang", 2))
    /\ m_calls["Andrew_Ng"].output = ""

\* a query result with documents and no distances
Unscored(res) == ~res.raises /\ Len(res.documents) > 0 /\ Len(res.distances) = 0

\* C32: a partition whose query returns documents without distances gets its
\* fixed default, a value between 30 and 50; and an invocation in which all
\* three partitions are unscored is not low-confidence and its returned
\* result is not escalated.
C32_UnscoredNeverEscalates ==
    /\ {style_default, context_default, decision_default} \subseteq 30..50
    /\ (RetrieveDone /\ ~queried[1].collections_raise) =>
          /\ Unscored(queried[1].style) =>
                 state.style_confidence = style_default
          /\ (~queried[1].client_raises /\ Unscored(queried[1].context)) =>
                 state.context_confidence = context_default
          /\ (~queried[1].client_raises /\ Unscored(queried[1].decision)) =>
                 state.decision_confidence = decision_default
    /\ retrieved_unscored => ~state.low_confidence
    /\ (Returned /\ retrieved_unscored) => ~result[1].escalated

\* the fields of the state that only Retrieve computes
RetrieveOwned(st) ==
    <<st.user_query, st.style_confidence, st.context_confidence,
      st.decision_confidence, st.overall_confidence, st.low_confidence>>

\* C34: the steps of Personalize, Decide, Escalate and Generate leave the
\* user query, the four confidence fields and low_confidence unchanged; so
\* from the end of Retrieve on they are the query the invocation was given
\* and the scores Retrieve computed, and a result returned from the terminal
\* state carries exactly these scores.
C34_OnlyRetrieveWritesScores ==
    /\ [](retrieve_left # <<>> =>
            /\ RetrieveOwned(state) = RetrieveOwned(retrieve_left[1])
            /\ state.user_query \in Queries
            /\ (Returned /\ exc = "") =>
                  /\ result[1].confidence.style = retrieve_left[1].style_confidence
                  /\ result[1].confidence.context = retrieve_left[1].context_confidence
                  /\ result[1].confidence.decision = retrieve_left[1].decision_confidence
                  /\ result[1].confidence.overall = retrieve_left[1].overall_confidence)
    /\ [][(pc \in {"personalize", "decision", "escalate", "generate"})
               => (RetrieveOwned(state') = RetrieveOwned(state))]_vars

\* an invocation went through Personalize, two Decide passes and Generate and
\* returned with the non-zero scores Retrieve had computed
C34_Witness ==
    /\ Returned
    /\ exc = ""
    /\ trace = <<"retrieve", "personalize", "decision", "decision", "generate">>
    /\ retrieve_left # <<>>
    /\ retrieve_left[1].style_confidence > 0
    /\ result[1].confidence.style = retrieve_left[1].style_confidence

\* C35: the Escalate node is entered only directly after the first Decide
\* pass: whenever the workflow is about to run or has run Escalate, Decide
\* has run exactly once and nothing has run since; once the edge from Decide
\* back to Decide has been followed, Escalate is neither pending nor executed.
C35_EscalateOnlyAfterFirstDecide ==
    /\ (pc = "escalate" \/ EscalateExecuted) =>
          /\ DecideVisits = 1
          /\ SubSeq(trace, 1, 3) = <<"retrieve", "personalize", "decision">>
          /\ state.low_confidence
    /\ FeedbackEdges > 0 => (pc # "escalate" /\ ~EscalateExecuted)

\* the router chose Escalate right after the first Decide pass, although that
\* pass had asked for refinement
C35_Witness ==
    /\ pc = "escalate"
    /\ trace = <<"retrieve", "personalize", "decision">>
    /\ state.feedback_loop

\* C36: if the critique call of a Decide pass raised, then after that pass
\* the critique is the literal fallback, which contains none of the risk
\* markers, feedback_loop is false, and the router has chosen Escalate or
\* Generate, not another Decide pass.
C36_CritiqueFailureEndsLoop ==
    (JustDecided /\ decide_calls[2].raises) =>
        /\ state.critique = critique_fallback
        /\ ~state.feedback_loop
        /\ route_after_decision(state) \in {"escalate", "generate"}
        /\ pc \in {"escalate", "generate"}

\* a second Decide pass, entered over the feedback edge, whose critique call
\* raised: it leaves for Generate
C36_Witness ==
    /\ JustDecided
    /\ decide_calls[2].raises
    /\ trace = <<"retrieve", "personalize", "decision", "decision">>
    /\ pc = "generate"

\* a twin identifier without a row in the table twin_metadata
UnstoredTwin(agent) ==
    StartsWith(agent, "twin_") /\ fetch_twin_metadata_from_db(agent) = <<>>

\* C37: get_agent_metadata raises for an identifier exactly when it is neither
\* a roster key nor starts with twin_, and run_meeting rejects a request
\* exactly when its agents contain such an identifier; a twin_ identifier
\* without stored metadata gets the generic metadata, its run is accepted,
\* and the prompts of its calls name the generic role and company.
C37_RejectsExactlyUnknownIds ==
    /\ \A agent \in AgentPool \cup Range(PERSONAS) :
          /\ get_agent_metadata(agent).raises <=> UnknownId(agent)
          /\ UnstoredTwin(agent) =>
                 get_agent_metadata(agent) = Metadata(generic_metadata)
    /\ m_request # <<>> =>
          (m_pc = "rejected" <=>
              \E agent \in Range(effective_agents(m_request[1].agents)) :
                  UnknownId(agent))
    /\ MeetingAccepted =>
          \A agent \in DOMAIN m_inputs :
              UnstoredTwin(agent) =>
                  Contains(m_inputs[agent].prompt,
                           "the visionary Personalized Advisor at Digital Twin.")
    /\ MeetingDone =>
          \A agent \in Range(effective_agents(m_request[1].agents)) :
              agent \in DOMAIN m_result[1].recommendations

\* a run whose only agent is a twin without stored metadata has returned its
\* recommendation
C37_Witness ==
    /\ MeetingDone
    /\ m_request[1].agents = <<"twin_7">>
    /\ UnstoredTwin("twin_7")
    /\ m_calls["twin_7"].count > 0
    /\ "twin_7" \in DOMAIN m_result[1].recommendations

\* the rounds in which every persona's node has run (read between rounds,
\* when no branch is running)
CompletedRounds ==
    Cardinality({n \in 1..recursion_limit :
                    \A persona \in RunAgents : m_calls[persona].count >= n})

\* C38: current_turn is 0 when the run starts and changes only in the step
\* after a fan-in, by exactly one; at every loop decision (just after that
\* step) it equals the number of completed rounds; the run leaves the loop
\* for update_memory at the first decision where current_turn >= turns and
\* goes round again at every earlier one; and every accepted run, whatever
\* its turns value, reaches update_memory.
C38_TurnCounterBoundsLoop ==
    /\ [](m_pc = "start_recommend" /\ m_calls # <<>>
            /\ (\A persona \in RunAgents : m_calls[persona].count = 0)
          => m_state.current_turn = 0)
    /\ [][(m_state # <<>> /\ m_state' # <<>>) =>
              (m_state'.current_turn =
                  m_state.current_turn + (IF m_pc = "increment" THEN 1 ELSE 0))]_vars
    /\ [][m_pc = "increment" =>
              /\ m_state'.current_turn = CompletedRounds'
              /\ m_pc' = (IF m_state'.current_turn >= m_state'.turns
                          THEN "update_memory" ELSE "start_recommend")]_vars
    /\ [](m_pc \in {"update_memory", "END", "done"} =>
              /\ m_state.current_turn >= m_state.turns
              /\ m_state.current_turn - 1 < m_state.turns \/ m_state.current_turn = 1)
    /\ (m_pc = "start_recommend") ~> (m_pc = "update_memory")

\* C31: the run file is written in one step only, after graph.invoke has
\* returned from the last turn, under the run's identifier, with the mapping
\* the caller gets, and is not written again; and what update_memory stored
\* of the recommendations is stored under the run's identifier too.
C31_PersistedOnceUnderRunId ==
    /\ [][(runs' # runs) => (m_pc = "END" /\ m_pc' = "done" /\ runs = <<>>)]_vars
    /\ [](runs # <<>> => MeetingDone)
    /\ [](MeetingDone =>
            /\ DOMAIN runs = {m_run_id}
            /\ m_result[1].run_id = m_run_id
            /\ runs[m_run_id].recommendations = m_result[1].recommendations
            /\ m_state.current_turn >= m_state.turns)
    /\ [](\A i \in 1..Len(memory) : memory[i].run_id = m_run_id)

\* update_memory has run and a store_chat_message call of it raised: fewer
\* records were stored than personas have a recommendation
StoreFailed ==
    /\ m_pc \in {"END", "done"}
    /\ Len(memory) < Len(personas_to_store(m_state))

\* C39: from the last fan-in on the recommendations mapping does not change,
\* whether or not storing to vector memory fails; update_memory always hands
\* over to the end of the graph; after a failed store the run still returns,
\* and the mapping returned and written to the run file is the mapping after
\* the last fan-in (every persona's last text).
C39_StoreFailureKeepsRun ==
    /\ [][(m_pc \in {"increment", "update_memory", "END"}) =>
              (m_state'.recommendations = m_state.recommendations)]_vars
    /\ [][(m_pc = "update_memory") => (m_pc' = "END")]_vars
    /\ []((MeetingDone /\ StoreFailed) =>
             /\ m_result[1].recommendations = m_state.recommendations
             /\ runs[m_run_id].recommendations = m_state.recommendations
             /\ \A persona \in RunAgents :
                    m_state.recommendations[persona] = m_calls[persona].output)
    /\ StoreFailed ~> MeetingDone

\* of two personas with a recommendation one was stored, then the store
\* failed; the run returned both recommendations
C39_Witness ==
    /\ MeetingDone
    /\ StoreFailed
    /\ Len(memory) = 1
    /\ Len(personas_to_store(m_state)) = 2
    /\ DOMAIN m_result[1].recommendations = RunAgents
    /\ DOMAIN runs[m_run_id].recommendations = RunAgents

====
